---- MODULE Spec2Model ----
(***************************************************************************)
(* Model of the voice-ui-kit components of pipecat-assistant:              *)
(*   - BotAudioPanel (components/panels/BotAudioPanel.tsx): the resize     *)
(*     observer that derives the bar geometry, and the rendered tree as a  *)
(*     function of track presence, props and geometry;                     *)
(*   - MessageContent (components/elements/MessageContent.tsx): the        *)
(*     rendering of a message's parts, Thinking indicator and timestamp.   *)
(*                                                                         *)
(* Lengths are numbers with fractions in the source (contentRect sizes,     *)
(* width / 20, 240 / 19).  The model keeps them exact with two units:       *)
(*   - a contentRect size is an integer count of 1/RectDen px, RectDen =    *)
(*     76 = 4 * 19 (quarter pixels, and nineteenths);                       *)
(*   - a state value (width, maxHeight, what the visualizer is given) is an *)
(*     integer count of 1/PxUnit px, PxUnit = 20 * RectDen = 1520.          *)
(* One contentRect unit is RectToState = 20 state units, so width / 20 is   *)
(* exact for every contentRect size the model can write: 100.5 px = 7638    *)
(* rect units gives 5.025 px = 7638 state units.  2 px = 3040, 240/19 px =  *)
(* 19200, 135 px = 205200 state units.                                      *)
(***************************************************************************)
EXTENDS Integers, Sequences, FiniteSets

VARIABLES
    track,          \* usePipecatClientMediaTrack("audio","bot") is non-null
    collapsed,      \* prop collapsed
    isMuted,        \* prop isMuted
    onMuteToggle,   \* prop onMuteToggle is supplied
    maxHeight,      \* useState(48) as of the latest render, in 1/PxUnit px
    width,          \* useState(4) as of the latest render, in 1/PxUnit px
    pending,        \* <<g>>: state update queued by the setters, not rendered yet
    strictMode,     \* React development Strict Mode (npm run dev) is on
    phase,          \* "committed" | "strict-unmount" | "strict-remount" | "live" |
                    \* "unmounted": where the panel is in its life
    observer,       \* "none" | "observing" | "disconnected": the latest observer
    cleanups,       \* number of times the effect's cleanup has run
    toggleCalls,    \* number of times onMuteToggle has been invoked
    lastEntry,      \* <<e>>: e is the last entry the observer reported; <<>> before
    published,      \* <<g>>: g was handed to setMaxHeight/setWidth last; <<>> before
    ui,             \* the tree returned by the latest render
    message,        \* MessageContent prop message
    enableMarkdown, \* MessageContent prop enableMarkdown
    hostTimeText,   \* what the host's toLocaleTimeString() gives for a valid time
    out             \* result of the latest MessageContent render

vars == <<track, collapsed, isMuted, onMuteToggle, maxHeight, width, pending,
          strictMode, phase, observer, cleanups, toggleCalls, lastEntry, published, ui,
          message, enableMarkdown, hostTimeText, out>>

panelVars == <<track, collapsed, isMuted, onMuteToggle, maxHeight, width, pending,
               strictMode, phase, observer, cleanups, toggleCalls, lastEntry, published, ui>>

msgVars == <<message, enableMarkdown, hostTimeText, out>>

-----------------------------------------------------------------------------
(* Bounds of the model *)

\* contentRect widths are 0, WidthStep, ... in 1/RectDen px: 11438 = 150.5 px
WidthStep == 11438
MaxWidthSteps == 2
\* contentRect heights are 0, HeightStep, ... in 1/RectDen px: 6099 = 80.25 px
HeightStep == 6099
MaxHeightSteps == 2
MaxEntries == 2
MaxCleanups == 3
MaxClicks == 1
MaxParts == 2
MaxStrLen == 2

-----------------------------------------------------------------------------
(* Arithmetic *)

Min(a, b) == IF a < b THEN a ELSE b

Max(a, b) == IF a > b THEN a ELSE b

barCount == 10

\* contentRect sizes count 1/RectDen px
RectDen == 4 * (2 * barCount - 1)

\* state units per contentRect unit
RectToState == barCount * 2

\* state values count 1/PxUnit px
PxUnit == RectDen * RectToState

Px(n) == n * PxUnit

-----------------------------------------------------------------------------
(* BotAudioPanel: geometry *)

maxWidth == Px(240)

maxBarWidth == maxWidth \div (2 * barCount - 1)

maxMaxHeight == (Px(240) * 9) \div 16

BarWidthLowSwapped(w) ==
    Min(Max((w * RectToState) \div (barCount * 2), maxBarWidth), Px(2))

\* w is contentRect.width in 1/RectDen px; w * RectToState is the same width in
\* state units, a multiple of barCount * 2: the quotient has no remainder.
BarWidthOf(w) ==
    Max(Min((w * RectToState) \div (barCount * 2), maxBarWidth), Px(2))

\* h is contentRect.height in 1/RectDen px
MaxHeightOf(h) == Max(Min(h * RectToState, maxMaxHeight), Px(20))

GeometryUnclampedBelow(entry) ==
    [barWidth  |-> Min((entry.width * RectToState) \div (barCount * 2), maxBarWidth),
     maxHeight |-> Min(entry.height * RectToState, maxMaxHeight)]

Geometry(entry) ==
    [barWidth  |-> BarWidthOf(entry.width),
     maxHeight |-> MaxHeightOf(entry.height)]

ApplyEntriesFirstWins(entries, geom) ==
    IF entries = <<>> THEN geom ELSE <<Geometry(Head(entries))>>

RECURSIVE ApplyEntries(_, _)
\* The queue of state updates after the loop over entries: every entry
\* replaces what setMaxHeight/setWidth were given before (queue: <<>> or <<g>>).
ApplyEntries(entries, queue) ==
    IF entries = <<>> THEN queue
    ELSE ApplyEntries(Tail(entries), <<Geometry(Head(entries))>>)

ContentRects ==
    { [width |-> WidthStep * i, height |-> HeightStep * j] :
        i \in 0..MaxWidthSteps, j \in 0..MaxHeightSteps }

\* The smallest and the largest sizes
CornerRects ==
    { [width |-> WidthStep * i, height |-> HeightStep * j] :
        i \in {0, MaxWidthSteps}, j \in {0, MaxHeightSteps} }

\* The entries of one callback: one entry of any size (one target is observed),
\* or up to MaxEntries entries of the smallest and largest sizes.
Batches ==
    [1..1 -> ContentRects] \cup
    UNION { [1..n -> CornerRects] : n \in 2..MaxEntries }

-----------------------------------------------------------------------------
(* BotAudioPanel: render *)

HeaderMuteButtonFixedLabel(t, m) ==
    [className |-> "ml-auto",
     disabled  |-> ~t,
     ariaLabel |-> "Mute bot",
     icon      |-> IF m THEN "VolumeXIcon" ELSE "Volume2Icon"]

\* <Button ... disabled={!track} className="ml-auto" aria-label=...> of the header
HeaderMuteButton(t, m) ==
    [className |-> "ml-auto",
     disabled  |-> ~t,
     ariaLabel |-> IF m THEN "Unmute bot" ELSE "Mute bot",
     icon      |-> IF m THEN "VolumeXIcon" ELSE "Volume2Icon"]

\* <Button ... disabled={!track} aria-label=...> of the collapsed panel
InlineMuteButton(t, m) ==
    [className |-> "",
     disabled  |-> ~t,
     ariaLabel |-> IF m THEN "Unmute bot" ELSE "Mute bot",
     icon      |-> IF m THEN "VolumeXIcon" ELSE "Volume2Icon"]

Header(c, t, m, f) ==
    IF ~c
    THEN { [title |-> "Bot Audio",
            mute  |-> IF f THEN { HeaderMuteButton(t, m) } ELSE {}] }
    ELSE {}

ContentClassBoth(c, f) ==
    (IF c THEN {"aspect-video"} ELSE {}) \cup (IF c /\ f THEN {"min-h-32"} ELSE {})

ContentClass(c, f) ==
    (IF c /\ ~f THEN {"aspect-video"} ELSE {}) \cup
    (IF c /\ f THEN {"min-h-32"} ELSE {})

InlineMuteAlways(c, t, m, f) ==
    IF f THEN { InlineMuteButton(t, m) } ELSE {}

InlineMute(c, t, m, f) ==
    IF c /\ f THEN { InlineMuteButton(t, m) } ELSE {}

BodyTextAlways(c, t, w, mh) ==
    IF t
    THEN [visualizer |-> { [barCount |-> barCount, barGap |-> w,
                            barMaxHeight |-> mh, barWidth |-> w,
                            barOrigin |-> "bottom", barLineCap |-> "square"] },
          icon |-> {}, text |-> {}]
    ELSE [visualizer |-> {},
          icon |-> {"MicOffIcon"},
          text |-> {"No audio"}]

Body(c, t, w, mh) ==
    IF t
    THEN [visualizer |-> { [barCount |-> barCount, barGap |-> w,
                            barMaxHeight |-> mh, barWidth |-> w,
                            barOrigin |-> "bottom", barLineCap |-> "square"] },
          icon |-> {}, text |-> {}]
    ELSE [visualizer |-> {},
          icon |-> {"MicOffIcon"},
          text |-> IF ~c THEN {"No audio"} ELSE {}]

Render(c, t, m, f, w, mh) ==
    [header       |-> Header(c, t, m, f),
     contentClass |-> ContentClass(c, f),
     inlineMute   |-> InlineMute(c, t, m, f),
     body         |-> Body(c, t, w, mh)]

HeaderMuteButtons(tree) == UNION { h.mute : h \in tree.header }

MuteButtons(tree) == HeaderMuteButtons(tree) \cup tree.inlineMute

MuteButtonCount(tree) ==
    Cardinality(HeaderMuteButtons(tree)) + Cardinality(tree.inlineMute)

-----------------------------------------------------------------------------
(* MessageContent: values *)

\* A JavaScript string is a sequence of UTF-16 code units; the model's
\* alphabet is "a" (97) and four of the code units String.prototype.trim()
\* strips: space (32), line feed (10), form feed (12), no-break space (160).
Chars == {97, 32, 10, 12, 160}

\* The code units trim() strips: WhiteSpace and LineTerminator of ECMAScript
\* (TAB LF VT FF CR SP NBSP, U+1680, U+2000..U+200A, LS PS, U+202F, U+205F,
\* U+3000, U+FEFF)
WhiteSpace ==
    {9, 10, 11, 12, 13, 32, 160, 5760} \cup (8192..8202) \cup
    {8232, 8233, 8239, 8287, 12288, 65279}

Strings == UNION { [1..n -> Chars] : n \in 0..MaxStrLen }

\* part.text: a string, undefined, or a React element (ReactNode)
TextValues ==
    { [type |-> "string", chars |-> s] : s \in Strings } \cup
    { [type |-> "undefined", chars |-> <<>>], [type |-> "element", chars |-> <<>>] }

\* An element of message.parts: a part object, or (outside the declared type)
\* null or undefined.
PartValues ==
    { [kind |-> "object", text |-> t] : t \in TextValues } \cup
    { [kind |-> k, text |-> [type |-> "undefined", chars |-> <<>>]] :
        k \in {"null", "undefined"} }

\* message.parts: an array of parts, or (outside the declared type) something
\* that is not an array.
PartsValues ==
    { [kind |-> "array", items |-> a] :
        a \in UNION { [1..n -> PartValues] : n \in 0..MaxParts } } \cup
    { [kind |-> k, items |-> <<>>] : k \in {"undefined", "null", "string", "object"} }

CreatedAtValues == {"2025-01-01T09:30:00", "undefined"}

Messages == [parts : PartsValues, createdAt : CreatedAtValues]

-----------------------------------------------------------------------------
(* MessageContent: render *)

RECURSIVE TrimStart(_)
TrimStart(s) ==
    IF s # <<>> /\ Head(s) \in WhiteSpace THEN TrimStart(Tail(s)) ELSE s

RECURSIVE TrimEnd(_)
TrimEnd(s) ==
    IF s # <<>> /\ s[Len(s)] \in WhiteSpace
    THEN TrimEnd(SubSeq(s, 1, Len(s) - 1))
    ELSE s

\* String.prototype.trim()
Trim(s) == TrimEnd(TrimStart(s))

\* const parts = Array.isArray(message.parts) ? message.parts : [];
PartsOf(msg) == IF msg.parts.kind = "array" THEN msg.parts.items ELSE <<>>

\* typeof part.text === "string"
IsText(part) == part.text.type = "string"

\* Reading part.text throws a TypeError when part is null or undefined.
Throws(parts) == \E i \in 1..Len(parts) : parts[i].kind \in {"null", "undefined"}

\* The Fragment rendered for parts[idx]
RenderPart(parts, idx, md) ==
    LET part == parts[idx]
        nextIsText == idx + 1 <= Len(parts) /\ IsText(parts[idx + 1])
    IN [node  |-> IF IsText(part)
                  THEN (IF md THEN [tag |-> "ReactMarkdown", chars |-> part.text.chars]
                              ELSE [tag |-> "text", chars |-> part.text.chars])
                  ELSE [tag |-> part.text.type, chars |-> <<>>],
        space |-> IsText(part) /\ nextIsText]

\* parts.length === 0 || parts.every(part => typeof part.text === "string"
\*                                    && part.text.trim() === "")
ShowThinking(parts) ==
    \/ Len(parts) = 0
    \/ \A i \in 1..Len(parts) : IsText(parts[i]) /\ Trim(parts[i].text.chars) = <<>>

\* Texts a host gives for the time 09:30:00, in UTF-16 code units.  The text
\* depends on the host (default locale, locale data, engine version) and not
\* on this code; these are some that hosts give: "9:30:00 AM", "09:30:00",
\* "9:30:00", "AM 9:30:00", "9:30:00 am", and one in Arabic-Indic digits.
HostTimeTexts ==
    { <<57, 58, 51, 48, 58, 48, 48, 32, 65, 77>>,
      <<48, 57, 58, 51, 48, 58, 48, 48>>,
      <<57, 58, 51, 48, 58, 48, 48>>,
      <<65, 77, 32, 57, 58, 51, 48, 58, 48, 48>>,
      <<57, 58, 51, 48, 58, 48, 48, 32, 97, 109>>,
      <<1641, 58, 1635, 1632, 58, 1632, 1632, 32, 1589>> }

\* "Invalid Date" in UTF-16 code units
InvalidDate == <<73, 110, 118, 97, 108, 105, 100, 32, 68, 97, 116, 101>>

\* new Date(message.createdAt).toLocaleTimeString(), in UTF-16 code units: for
\* a valid date whatever text the host gives for it (hostText), for an
\* unparsable date "Invalid Date".
ToLocaleTimeString(createdAt, hostText) ==
    IF createdAt = "2025-01-01T09:30:00" THEN hostText ELSE InvalidDate

MessageContent(msg, md, hostText) ==
    LET parts == PartsOf(msg)
    IN IF Throws(parts)
       THEN [status |-> "TypeError", content |-> <<>>, thinking |-> FALSE,
             time |-> <<>>]
       ELSE [status   |-> "ok",
             content  |-> [i \in 1..Len(parts) |-> RenderPart(parts, i, md)],
             thinking |-> ShowThinking(parts),
             time     |-> <<ToLocaleTimeString(msg.createdAt, hostText)>>]

-----------------------------------------------------------------------------
(* BotAudioPanel: state machine *)

NoMessage == [parts |-> [kind |-> "array", items |-> <<>>], createdAt |-> "undefined"]

NotRendered ==
    [status |-> "not rendered", content |-> <<>>, thinking |-> FALSE, time |-> <<>>]

InitPanel ==
    /\ track \in BOOLEAN
    /\ collapsed \in BOOLEAN
    /\ isMuted \in BOOLEAN
    /\ onMuteToggle \in BOOLEAN
    /\ maxHeight = Px(48)
    /\ width = Px(4)
    /\ pending = <<>>
    /\ strictMode \in BOOLEAN
    /\ phase = "committed"
    /\ observer = "none"
    /\ cleanups = 0
    /\ toggleCalls = 0
    /\ lastEntry = <<>>
    /\ published = <<>>
    /\ ui = Render(collapsed, track, isMuted, onMuteToggle, width, maxHeight)

Init ==
    /\ InitPanel
    /\ message = NoMessage
    /\ enableMarkdown = FALSE
    /\ hostTimeText = <<48, 57, 58, 51, 48, 58, 48, 48>>
    /\ out = NotRendered

\* The panel is mounted and React is not in the middle of Strict Mode's
\* synchronous replay of the effect.
Mounted == phase \in {"committed", "live"}

\* The values of the two useState cells in a render: the queued update when
\* the render processes it, the values of the previous render otherwise.
StateInRender(flush) ==
    IF flush /\ pending # <<>>
    THEN pending[1]
    ELSE [barWidth |-> width, maxHeight |-> maxHeight]

\* useEffect(() => {...}, []): the effect runs after the first commit; in
\* development Strict Mode React then runs its cleanup and the effect once more,
\* synchronously.  The div that carries containerRef is rendered
\* unconditionally, so the ref is attached; each run makes a new observer.
UseEffect ==
    /\ phase \in {"committed", "strict-remount"}
    /\ observer' = "observing"
    /\ phase' = (IF phase = "committed" /\ strictMode THEN "strict-unmount" ELSE "live")
    /\ UNCHANGED <<track, collapsed, isMuted, onMuteToggle, maxHeight, width,
                   pending, strictMode, cleanups, toggleCalls, lastEntry,
                   published, ui>>
    /\ UNCHANGED msgVars

\* The ResizeObserver callback: for every entry it hands the clamped values to
\* setMaxHeight and setWidth, and returns.  The setters queue the update; the
\* state and the tree change when React renders (RenderPending or a render
\* with another cause).
ResizeCallback(entries) ==
    /\ observer = "observing"
    /\ pending' = ApplyEntries(entries, pending)
    /\ published' = pending'
    /\ lastEntry' = <<entries[Len(entries)]>>
    /\ UNCHANGED <<strictMode, phase, track, collapsed, isMuted, onMuteToggle, maxHeight, width,
                   observer, cleanups, toggleCalls, ui>>
    /\ UNCHANGED msgVars

\* React renders the panel because of the queued state update.
RenderPending ==
    /\ Mounted
    /\ pending # <<>>
    /\ width' = StateInRender(TRUE).barWidth
    /\ maxHeight' = StateInRender(TRUE).maxHeight
    /\ pending' = <<>>
    /\ ui' = Render(collapsed, track, isMuted, onMuteToggle, width', maxHeight')
    /\ UNCHANGED <<strictMode, phase, track, collapsed, isMuted, onMuteToggle, observer, cleanups,
                   toggleCalls, lastEntry, published>>
    /\ UNCHANGED msgVars

TrackChangeStale(flush) ==
    /\ Mounted
    /\ flush => pending # <<>>
    /\ track' = ~track
    /\ UNCHANGED <<strictMode, phase, collapsed, isMuted, onMuteToggle, maxHeight, width, pending,
                   observer, cleanups, toggleCalls, lastEntry, published, ui>>
    /\ UNCHANGED msgVars

\* The bot audio track appears or disappears and the hook re-renders the
\* panel; the render may process a queued state update with it (flush) or
\* leave it to a later render, depending on the priorities of the two updates.
TrackChange(flush) ==
    /\ Mounted
    /\ flush => pending # <<>>
    /\ track' = ~track
    /\ width' = StateInRender(flush).barWidth
    /\ maxHeight' = StateInRender(flush).maxHeight
    /\ pending' = (IF flush THEN <<>> ELSE pending)
    /\ ui' = Render(collapsed, track', isMuted, onMuteToggle, width', maxHeight')
    /\ UNCHANGED <<strictMode, phase, collapsed, isMuted, onMuteToggle, observer, cleanups,
                   toggleCalls, lastEntry, published>>
    /\ UNCHANGED msgVars

\* The parent re-renders the panel with other props; as for TrackChange the
\* render may process a queued state update with it.
PropsChange(c, m, f, flush) ==
    /\ Mounted
    /\ flush => pending # <<>>
    /\ <<c, m, f>> # <<collapsed, isMuted, onMuteToggle>>
    /\ collapsed' = c
    /\ isMuted' = m
    /\ onMuteToggle' = f
    /\ width' = StateInRender(flush).barWidth
    /\ maxHeight' = StateInRender(flush).maxHeight
    /\ pending' = (IF flush THEN <<>> ELSE pending)
    /\ ui' = Render(c, track, m, f, width', maxHeight')
    /\ UNCHANGED <<strictMode, phase, track, observer, cleanups, toggleCalls, lastEntry, published>>
    /\ UNCHANGED msgVars

\* A click on the rendered, enabled mute button: onClick={onMuteToggle}.
Click ==
    /\ Mounted
    /\ toggleCalls < MaxClicks
    /\ \E b \in MuteButtons(ui) : ~b.disabled
    /\ toggleCalls' = toggleCalls + 1
    /\ UNCHANGED <<strictMode, phase, track, collapsed, isMuted, onMuteToggle, maxHeight, width,
                   pending, observer, cleanups, lastEntry, published, ui>>
    /\ UNCHANGED msgVars

CleanupNoDisconnect ==
    /\ phase \in {"strict-unmount", "live", "unmounted"}
    /\ phase = "unmounted" => cleanups < MaxCleanups
    /\ cleanups' = cleanups + 1
    /\ phase' = (IF phase = "strict-unmount" THEN "strict-remount" ELSE "unmounted")
    /\ UNCHANGED <<track, collapsed, isMuted, onMuteToggle, maxHeight, width,
                   pending, strictMode, observer, toggleCalls, lastEntry,
                   published, ui>>
    /\ UNCHANGED msgVars

\* The function returned by the effect: observer.disconnect().  React runs it
\* at unmount and, in Strict Mode, once right after the first effect; run again
\* after the unmount it disconnects the disconnected observer.  An update
\* still queued at unmount is never rendered.
Cleanup ==
    /\ phase \in {"strict-unmount", "live", "unmounted"}
    /\ phase = "unmounted" => cleanups < MaxCleanups
    /\ observer' = "disconnected"
    /\ cleanups' = cleanups + 1
    /\ phase' = (IF phase = "strict-unmount" THEN "strict-remount" ELSE "unmounted")
    /\ UNCHANGED <<track, collapsed, isMuted, onMuteToggle, maxHeight, width,
                   pending, strictMode, toggleCalls, lastEntry, published, ui>>
    /\ UNCHANGED msgVars

Next ==
    \/ UseEffect
    \/ \E entries \in Batches : ResizeCallback(entries)
    \/ RenderPending
    \/ \E flush \in BOOLEAN : TrackChange(flush)
    \/ \E c \in BOOLEAN, m \in BOOLEAN, f \in BOOLEAN, flush \in BOOLEAN :
          PropsChange(c, m, f, flush)
    \/ Click
    \/ Cleanup

Spec == Init /\ [][Next]_vars

-----------------------------------------------------------------------------
(* MessageContent: state machine *)

InitMsg ==
    /\ track = FALSE
    /\ collapsed = FALSE
    /\ isMuted = FALSE
    /\ onMuteToggle = FALSE
    /\ strictMode = FALSE
    /\ InitPanel
    /\ message \in Messages
    /\ enableMarkdown \in BOOLEAN
    /\ hostTimeText \in HostTimeTexts
    /\ out = NotRendered

\* One render of <MessageContent message=... enableMarkdown=... />
RenderMessage ==
    /\ out' = MessageContent(message, enableMarkdown, hostTimeText)
    /\ UNCHANGED <<message, enableMarkdown, hostTimeText>>
    /\ UNCHANGED panelVars

NextMsg == RenderMessage

SpecMsg == InitMsg /\ [][NextMsg]_vars

-----------------------------------------------------------------------------
(* Properties of BotAudioPanel *)

\* clamp(x, lo, hi) as the specification writes it
Clamp(x, lo, hi) == IF x < lo THEN lo ELSE IF x > hi THEN hi ELSE x

\* The geometry the specification assigns to a container of size rect (in
\* 1/RectDen px), in state units:
\* barWidthPx = clamp(w/20, 2, 240/19), maxBarHeightPx = clamp(h, 20, 135)
ClaimedGeometry(rect) ==
    [barWidth  |-> Clamp((rect.width * RectToState) \div 20, Px(2), Px(240) \div 19),
     maxHeight |-> Clamp(rect.height * RectToState, Px(20), Px(135))]

\* C1: for every resize entry the observer reports, with content width w >= 0
\* and height h >= 0, the geometry the callback hands to the state setters is
\* exactly barWidth = clamp(w/20, 2, 240/19), maxHeight = clamp(h, 20, 135).
C1_PublishedGeometryIsClamp ==
    /\ Len(published) = Len(lastEntry)
    /\ \A i \in 1..Len(published) :
          /\ lastEntry[i].width >= 0
          /\ lastEntry[i].height >= 0
          /\ published[i] = ClaimedGeometry(lastEntry[i])

\* C1 witness: an entry wider than the upper clamp needs and lower than the
\* height floor was reported and published as (240/19, 20).
C1_Witness ==
    /\ published # <<>>
    /\ (lastEntry[1].width * RectToState) \div 20 > Px(240) \div 19
    /\ lastEntry[1].height * RectToState < Px(20)
    /\ published[1] = [barWidth |-> Px(240) \div 19, maxHeight |-> Px(20)]

\* C2: in every reachable state of the panel (the defaults 48 and 4 before any
\* resize, and after any resize, track change or prop change) the bar width
\* lies in [2, 240/19] and the maximum bar height in [20, 135], in the state,
\* in a queued update and in what the visualizer is given.
C2_GeometryInRange ==
    /\ Px(2) <= width /\ width <= Px(240) \div 19
    /\ Px(20) <= maxHeight /\ maxHeight <= Px(135)
    /\ \A i \in 1..Len(pending) :
          /\ Px(2) <= pending[i].barWidth /\ pending[i].barWidth <= Px(240) \div 19
          /\ Px(20) <= pending[i].maxHeight /\ pending[i].maxHeight <= Px(135)
    /\ \A v \in ui.body.visualizer :
          /\ Px(2) <= v.barWidth /\ v.barWidth <= Px(240) \div 19
          /\ v.barGap = v.barWidth
          /\ Px(20) <= v.barMaxHeight /\ v.barMaxHeight <= Px(135)

\* C2 witness: a resize to an empty container has been rendered and has put
\* both values on their floors while the visualizer is shown.
C2_Witness ==
    /\ lastEntry # <<>>
    /\ lastEntry[1].width = 0 /\ lastEntry[1].height = 0
    /\ track
    /\ width = Px(2) /\ maxHeight = Px(20)
    /\ \E v \in ui.body.visualizer : v.barWidth = Px(2) /\ v.barMaxHeight = Px(20)

\* C3 as claimed: after any sequence of resize callbacks the current geometry
\* is the clamp of the last entry of the latest callback alone; before the
\* first callback it is the defaults (4, 48).
C3_LastEntryWins ==
    /\ lastEntry = <<>> => width = Px(4) /\ maxHeight = Px(48)
    /\ lastEntry # <<>> =>
          /\ width = ClaimedGeometry(lastEntry[1]).barWidth
          /\ maxHeight = ClaimedGeometry(lastEntry[1]).maxHeight
    /\ \A v \in ui.body.visualizer :
          v.barWidth = width /\ v.barMaxHeight = maxHeight

\* C3 as amended: the state update queued by the latest callback is the clamp
\* of its last entry alone, and once that update has been rendered (none is
\* pending) the current geometry is that clamp; before the first callback the
\* geometry is the defaults (4, 48); the visualizer is given the current
\* geometry.  Nothing earlier influences the update.
C3_LastEntryWinsOnceRendered ==
    /\ lastEntry = <<>> => pending = <<>> /\ width = Px(4) /\ maxHeight = Px(48)
    /\ pending # <<>> => pending = <<ClaimedGeometry(lastEntry[1])>>
    /\ (lastEntry # <<>> /\ pending = <<>>) =>
          /\ width = ClaimedGeometry(lastEntry[1]).barWidth
          /\ maxHeight = ClaimedGeometry(lastEntry[1]).maxHeight
    /\ \A v \in ui.body.visualizer :
          v.barWidth = width /\ v.barMaxHeight = maxHeight

\* C3 witness: the update of the latest entry, inside both ranges, has been
\* rendered: the geometry is the entry's own, neither the defaults nor a bound.
C3_Witness ==
    /\ lastEntry # <<>>
    /\ pending = <<>>
    /\ width = (lastEntry[1].width * RectToState) \div 20
    /\ maxHeight = lastEntry[1].height * RectToState
    /\ width \notin {Px(2), Px(4), Px(240) \div 19}
    /\ maxHeight \notin {Px(20), Px(48), Px(135)}

\* C4 as claimed: the subscription is acquired once on mount and released on
\* unmount; once the cleanup has run, the observer stays disconnected and no
\* geometry update occurs, a second cleanup included.
C4_NoUpdateAfterCleanup ==
    [][cleanups >= 1 =>
         /\ observer = "disconnected" /\ observer' = "disconnected"
         /\ width' = width /\ maxHeight' = maxHeight
         /\ pending' = pending /\ published' = published]_vars

\* C4 as amended: every run of the effect acquires a subscription and the
\* cleanup that follows releases it; while the observer is disconnected no
\* step changes the geometry, a queued update or the rendered tree; after the
\* unmount the observer stays disconnected for ever, a second cleanup included.
C4_NoUpdateWhileReleased ==
    [][/\ cleanups' # cleanups => observer' = "disconnected"
       /\ phase = "unmounted" =>
            observer = "disconnected" /\ phase' = "unmounted"
       /\ observer = "disconnected" =>
            /\ width' = width /\ maxHeight' = maxHeight
            /\ pending' = pending /\ published' = published
            /\ ui' = ui]_vars

\* C4 witness: the panel was unmounted with an update of a resize still
\* queued, the cleanup has run again on the disconnected observer, and the
\* geometry has remained the rendered one.
C4_Witness ==
    /\ phase = "unmounted"
    /\ cleanups >= 2 /\ ~strictMode
    /\ observer = "disconnected"
    /\ lastEntry # <<>>
    /\ pending # <<>>
    /\ width = Px(4) /\ maxHeight = Px(48)

\* C5: every rendered mute control is disabled exactly when no bot audio
\* track is present, in both display modes and for both mute states, in the
\* tree of the current render (no debounce).
C5_DisabledIffNoTrack ==
    \A b \in MuteButtons(ui) : b.disabled <=> ~track

\* C5 witness: a collapsed panel with a toggle callback and no track shows
\* its control disabled.
C5_Witness ==
    /\ collapsed /\ onMuteToggle /\ ~track /\ isMuted
    /\ \E b \in ui.inlineMute : b.disabled

\* C6: the panel renders exactly one content branch, chosen by track presence:
\* without a track the no-audio icon, no visualizer, and the text "No audio"
\* exactly when expanded; with a track the visualizer, no icon and no text.
C6_ContentBranch ==
    /\ (ui.body.visualizer = {}) # (ui.body.icon = {})
    /\ ~track => /\ ui.body.icon = {"MicOffIcon"}
                 /\ ui.body.visualizer = {}
                 /\ ui.body.text = (IF collapsed THEN {} ELSE {"No audio"})
    /\ track => /\ Cardinality(ui.body.visualizer) = 1
                /\ ui.body.icon = {}
                /\ ui.body.text = {}

\* C6 witness: collapsed without a track: the icon without the text.
C6_Witness ==
    /\ ~track /\ collapsed
    /\ ui.body.icon = {"MicOffIcon"} /\ ui.body.text = {}

\* C7: the number of mute controls rendered is 1 when onMuteToggle is supplied
\* and 0 when it is not; expanded, the control is in the header, whose title
\* is "Bot Audio"; collapsed, there is no header and the control is inline.
C7_MuteControlCount ==
    /\ MuteButtonCount(ui) = (IF onMuteToggle THEN 1 ELSE 0)
    /\ ~collapsed => /\ Cardinality(ui.header) = 1
                     /\ \A h \in ui.header : h.title = "Bot Audio"
                     /\ ui.inlineMute = {}
    /\ collapsed => ui.header = {}

\* C7 witness: expanded without a toggle callback: a titled header, no control.
C7_Witness ==
    /\ ~collapsed /\ ~onMuteToggle
    /\ MuteButtonCount(ui) = 0
    /\ \E h \in ui.header : h.title = "Bot Audio"

MuteLabelOk ==
    \A b \in MuteButtons(ui) :
        b.ariaLabel = (IF isMuted THEN "Unmute bot" ELSE "Mute bot")

\* C8: a rendered mute control is labelled "Unmute bot" when isMuted and
\* "Mute bot" otherwise, in both display modes and whatever the track; a click
\* only invokes onMuteToggle: it changes neither isMuted nor the tree.
C8_MuteLabel ==
    /\ []MuteLabelOk
    /\ [][toggleCalls' # toggleCalls =>
            /\ toggleCalls' = toggleCalls + 1
            /\ isMuted' = isMuted
            /\ ui' = ui]_vars

\* C8 witness: a muted panel whose control was clicked shows "Unmute bot".
C8_Witness ==
    /\ isMuted /\ toggleCalls >= 1
    /\ \E b \in MuteButtons(ui) : b.ariaLabel = "Unmute bot"

\* C9: the size constraint of the content container depends on collapsed and
\* on the presence of the toggle callback only: collapsed without callback,
\* the 16:9 aspect; collapsed with callback, the minimum height; expanded,
\* neither; never both.
C9_SizeConstraint ==
    /\ ui.contentClass =
          (IF collapsed /\ ~onMuteToggle THEN {"aspect-video"}
           ELSE IF collapsed /\ onMuteToggle THEN {"min-h-32"}
           ELSE {})
    /\ Cardinality(ui.contentClass) <= 1

\* C9 witness: collapsed with a callback and a track: the minimum height only.
C9_Witness ==
    /\ collapsed /\ onMuteToggle /\ track
    /\ ui.contentClass = {"min-h-32"}

-----------------------------------------------------------------------------
(* Properties of MessageContent *)

\* A parts collection that is not an array of part objects
Malformed(parts) ==
    \/ parts.kind # "array"
    \/ \E i \in 1..Len(parts.items) : parts.items[i].kind # "object"

AllBlank(items) ==
    \A i \in 1..Len(items) :
        /\ items[i].kind = "object"
        /\ items[i].text.type = "string"
        /\ \A j \in 1..Len(items[i].text.chars) :
              items[i].text.chars[j] \in WhiteSpace

\* C10: rendering a message never fails on its parts collection: a non-array
\* or malformed collection is treated as empty (no part content, the Thinking
\* indicator, the timestamp), and the Thinking indicator is shown exactly when
\* the collection is empty or every part's text is a blank string.
C10_NeverFailsOnParts ==
    out.status # "not rendered" =>
        /\ out.status = "ok"
        /\ Len(out.time) = 1
        /\ Malformed(message.parts) => /\ out.content = <<>>
                                       /\ out.thinking
        /\ out.thinking <=>
              \/ Malformed(message.parts)
              \/ message.parts.items = <<>>
              \/ AllBlank(message.parts.items)

\* What holds of the code: C10 for every parts collection that is not an array
\* or is an array of part objects.
C10_HoldsWithoutNullishParts ==
    (out.status # "not rendered" /\ ~Throws(PartsOf(message))) =>
        /\ out.status = "ok"
        /\ Len(out.time) = 1
        /\ message.parts.kind # "array" => out.content = <<>> /\ out.thinking
        /\ out.thinking <=>
              \/ message.parts.kind # "array"
              \/ message.parts.items = <<>>
              \/ AllBlank(message.parts.items)

====
